---- MODULE Spec2Model ----
(***************************************************************************)
(* Consistent-hashing ring with virtual nodes: the token index and node    *)
(* registry of corelib::ring::HashRing, its reader/writer lock, and the    *)
(* SimpleStrategy replica walk of the replication crate.                   *)
(***************************************************************************)
EXTENDS Integers, Sequences, FiniteSets, TLC

\* ------------------------------------------------------------------ bounds
NumNodes == 3
MaxVnodes == 2
TokenBits == 2
MaxSeed == 2
NumKeys == 2
MaxRF == 3
NumThreads == 2
MaxCalls == 1
MaxBuilderCalls == 3
\* RingBuilder::new's default_vnodes (256 in the source), scaled to the
\* model's token space
DefaultVnodes == 1

NodeIds == 1..NumNodes
VnodeCounts == 0..MaxVnodes
Seeds == 0..MaxSeed
Factors == 0..MaxRF
Threads == 1..NumThreads
Names == {"a", "b"}

\* Murmur3Token(u64): the token space [0, u64::MAX], at a reduced width.
TokenMax == 2^TokenBits - 1
Tokens == 0..TokenMax

\* Option<T>: None is the empty sequence, Some(x) the one-element sequence.
None == <<>>
Some(x) == <<x>>

\* ------------------------------------------------------------ keys, bytes
\* A key is its byte sequence. The lookup keys are "k1", "k2", ...
Keys == {<<107, 48 + j>> : j \in 1..NumKeys}

RECURSIVE HexDigits(_)
\* the lower-case hex digits of n, most significant first ("{:x}")
HexDigits(n) ==
    LET d == n % 16
        c == IF d < 10 THEN 48 + d ELSE 87 + d
    IN  IF n < 16 THEN <<c>> ELSE Append(HexDigits(n \div 16), c)

RECURSIVE DecDigits(_)
\* the decimal digits of n, most significant first ("{}")
DecDigits(n) ==
    IF n < 10 THEN <<48 + n>> ELSE Append(DecDigits(n \div 10), 48 + (n % 10))

\* NodeId's Display: "{:032x}", zero-padded to 32 hex digits.
NodeIdDisplay(id) ==
    LET h == HexDigits(id)
    IN  [j \in 1..(32 - Len(h)) |-> 48] \o h

\* format!("{}:{}", node.id, i)
VnodeKey(id, i) == NodeIdDisplay(id) \o <<58>> \o DecDigits(i)

RECURSIVE Absorb(_, _, _)
Absorb(h, bytes, j) ==
    IF j > Len(bytes) THEN h
    ELSE Absorb(((h + bytes[j]) * (h + bytes[j] + 7)) % 251, bytes, j + 1)

\* SipHasher13 over the length-prefixed bytes (an external crate): a
\* deterministic mixing function of the bytes, truncated to the token width.
\* The seed ranges over a family of such functions, so that no property
\* rests on one particular function.
SipHash(sd, bytes) == Absorb((sd * 7 + Len(bytes)) % 251, bytes, 1) % (TokenMax + 1)

\* the keys handed to the partitioners directly: the lookup keys, the empty
\* key, the one-byte keys 0x00 and 0xFF and a two-byte key
PartKeys == Keys \cup {<<>>, <<0>>, <<255>>, <<255, 0>>}

\* every byte string the model hashes: the keys and the vnode keys
KeySpace ==
    PartKeys \cup {VnodeKey(id, i) : id \in NodeIds, i \in 0..(MaxVnodes - 1)}

\* SipHash tabulated once per seed (the function is pure)
SipTable == [sd \in Seeds |-> [bytes \in KeySpace |-> SipHash(sd, bytes)]]

VARIABLES
    seed,      \* the hash function in use (fixed for a run)
    tokens,    \* RingInner.tokens: BTreeMap<Murmur3Token, NodeId>
    nodes,     \* RingInner.nodes: HashMap<NodeId, Node>
    last,      \* the call that completed last: <<op, arg, ret>>
    wlock,     \* RwLock: the thread holding the write acquisition, or 0
    rlock,     \* RwLock: the threads holding a read acquisition
    pc,        \* per thread: position inside its current call
    loc,       \* per thread: the locals of its current call
    ncalls,    \* per thread: the calls it has started
    committed  \* the ring <<tokens, nodes>> as the last write release left it

vars == <<seed, tokens, nodes, last, wlock, rlock, pc, loc, ncalls, committed>>
ring == <<tokens, nodes>>
conc == <<wlock, rlock, pc, loc, ncalls>>

LastOp == last[1]
LastArg == last[2]
LastRet == last[3]

\* Murmur3Token::from_bytes / from_key
from_bytes(bytes) == SipTable[seed][bytes]

\* Murmur3Partitioner::partition
partition(key) == from_bytes(key)

\* Node::new(id, name)
Node(id, name) == [id |-> id, name |-> name]

\* ------------------------------------------------------------- RingInner
EmptyMap == [x \in {} |-> 0]

\* BTreeMap::insert / HashMap::insert: overwrites an existing key
Put(m, k, v) == [x \in DOMAIN m \cup {k} |-> IF x = k THEN v ELSE m[x]]

\* HashMap::remove
Del(m, k) == [x \in DOMAIN m \ {k} |-> m[x]]

RECURSIVE range_next(_, _)
\* BTreeMap::range(token..).next(): the first stored key >= t, scanning upwards
range_next(toks, t) ==
    IF t > TokenMax THEN None
    ELSE IF t \in DOMAIN toks THEN Some(t)
    ELSE range_next(toks, t + 1)

\* BTreeMap::first_key_value
first_key(toks) == range_next(toks, 0)

node_for_token_nowrap(toks, t) ==
    IF DOMAIN toks = {} THEN None
    ELSE LET r == range_next(toks, t)
         IN  IF r # None THEN Some(toks[r[1]]) ELSE None

\* RingInner::node_for_token
node_for_token(toks, t) ==
    IF DOMAIN toks = {} THEN None
    ELSE LET r == range_next(toks, t)
         IN  IF r # None THEN Some(toks[r[1]])
             ELSE Some(toks[first_key(toks)[1]])

insert_meta_skip(nds, node) == nds

insert_meta_if_absent(nds, node) ==
    IF node.id \in DOMAIN nds THEN nds ELSE Put(nds, node.id, node)

\* RingInner::add_node, "self.nodes.insert(node.id, node.clone())"
insert_meta(nds, node) == Put(nds, node.id, node)

from_index_other(node_id, vnode_index) ==
    <<from_bytes(VnodeKey((node_id % NumNodes) + 1, vnode_index)), node_id>>

\* VirtualNode::from_index(node_id, vnode_index): the pair <<token, node_id>>
from_index(node_id, vnode_index) ==
    <<from_bytes(VnodeKey(node_id, vnode_index)), node_id>>

insert_vnode_keep(toks, id, i) ==
    IF from_bytes(VnodeKey(id, i)) \in DOMAIN toks THEN toks
    ELSE Put(toks, from_bytes(VnodeKey(id, i)), id)

insert_vnode_neighbour(toks, id, i) ==
    Put(toks, from_bytes(VnodeKey(id, i)), (id % NumNodes) + 1)

insert_vnode_index0(toks, id, i) == Put(toks, from_bytes(VnodeKey(id, 0)), id)

\* RingInner::add_node, one pass of the loop body for index i
insert_vnode(toks, id, i) == Put(toks, from_bytes(VnodeKey(id, i)), id)

RECURSIVE insert_vnodes(_, _, _, _)
\* RingInner::add_node, the loop "for i in 0..vnodes", from index i on
insert_vnodes(toks, id, i, vnodes) ==
    IF i >= vnodes THEN toks
    ELSE insert_vnodes(insert_vnode(toks, id, i), id, i + 1, vnodes)

\* RingInner::add_node
add_node(toks, nds, node, vnodes) ==
    [tokens |-> insert_vnodes(toks, node.id, 0, vnodes),
     nodes  |-> insert_meta(nds, node)]

\* BTreeMap::retain(|_, id| id != node_id): the entries it has yet to drop
owned_by(toks, id) == {y \in DOMAIN toks : toks[y] = id}

retain_step_keep(toks, id) == toks

retain_step_first(toks, id) ==
    Del(toks, CHOOSE y \in DOMAIN toks : \A z \in DOMAIN toks : y <= z)

\* BTreeMap::retain, one entry: drops the first stored entry mapped to id
retain_step(toks, id) ==
    LET o == owned_by(toks, id)
    IN  IF o = {} THEN toks
        ELSE Del(toks, CHOOSE y \in o : \A z \in o : y <= z)

RECURSIVE retain_not(_, _, _)
\* BTreeMap::retain(|_, id| id != node_id), in at most `fuel` passes
retain_not(toks, id, fuel) ==
    IF fuel = 0 \/ owned_by(toks, id) = {} THEN toks
    ELSE retain_not(retain_step(toks, id), id, fuel - 1)

remove_node_if_owner(toks, nds, id) ==
    IF owned_by(toks, id) = {}
    THEN [tokens |-> toks, nodes |-> nds, ret |-> FALSE]
    ELSE [tokens |-> retain_not(toks, id, Cardinality(DOMAIN toks)),
          nodes |-> Del(nds, id), ret |-> TRUE]

remove_node_meta_only(toks, nds, id) ==
    IF id \notin DOMAIN nds
    THEN [tokens |-> toks, nodes |-> nds, ret |-> FALSE]
    ELSE [tokens |-> toks, nodes |-> Del(nds, id), ret |-> TRUE]

remove_node_unchecked(toks, nds, id) ==
    [tokens |-> retain_not(toks, id, Cardinality(DOMAIN toks)),
     nodes |-> Del(nds, id), ret |-> TRUE]

\* RingInner::remove_node
remove_node(toks, nds, id) ==
    IF id \notin DOMAIN nds
    THEN [tokens |-> toks, nodes |-> nds, ret |-> FALSE]
    ELSE [tokens |-> retain_not(toks, id, Cardinality(DOMAIN toks)),
          nodes |-> Del(nds, id), ret |-> TRUE]

\* RingInner::get_node
get_node(nds, id) == IF id \in DOMAIN nds THEN Some(nds[id]) ELSE None

\* RingInner::nodes / HashRing::nodes: the stored nodes; a HashMap iterates
\* in no fixed order, so the list is kept as the set of its elements
nodes_list(nds) == {nds[id] : id \in DOMAIN nds}

\* RingInner::token_count / node_count
token_count(toks) == Cardinality(DOMAIN toks)
node_count(nds) == Cardinality(DOMAIN nds)

\* ---------------------------------------------------------------- HashRing
\* HashRing::lookup on the ring state (toks)
lookup(toks, key) == node_for_token(toks, partition(key))

\* HashRing::lookup_node_optimized: one read acquisition
lookup_node_optimized(toks, nds, key) ==
    LET r == node_for_token(toks, partition(key))
    IN  IF r = None THEN None ELSE get_node(nds, r[1])

\* HashRing::lookup_node with nothing running between its two acquisitions
lookup_node(toks, nds, key) ==
    LET r == lookup(toks, key)
    IN  IF r = None THEN None ELSE get_node(nds, r[1])

\* HashRing::tokens / RingInner::tokens: the entries in ascending token order
RECURSIVE tokens_from(_, _)
tokens_from(toks, t) ==
    IF t > TokenMax THEN <<>>
    ELSE (IF t \in DOMAIN toks THEN << <<t, toks[t]>> >> ELSE <<>>)
         \o tokens_from(toks, t + 1)

tokens_vec(toks) == tokens_from(toks, 0)

\* ---------------------------------------------------------- SimpleStrategy
RECURSIVE position_from(_, _, _)
\* Iterator::position(|(_, node_id)| *node_id == primary): a 0-based index
position_from(ts, primary, j) ==
    IF j >= Len(ts) THEN None
    ELSE IF ts[j + 1][2] = primary THEN Some(j)
    ELSE position_from(ts, primary, j + 1)

RECURSIVE walk_short(_, _, _, _, _, _)
walk_short(ts, start_idx, i, replicas, seen_nodes, rf) ==
    IF i >= Len(ts) - 1 THEN replicas
    ELSE LET node_id == ts[((start_idx + i) % Len(ts)) + 1][2]
             pushed == Append(replicas, node_id)
         IN  IF node_id \in seen_nodes
             THEN walk_short(ts, start_idx, i + 1, replicas, seen_nodes, rf)
             ELSE IF Len(pushed) >= rf THEN pushed
             ELSE walk_short(ts, start_idx, i + 1, pushed,
                             seen_nodes \cup {node_id}, rf)

RECURSIVE walk_noskip(_, _, _, _, _, _)
walk_noskip(ts, start_idx, i, replicas, seen_nodes, rf) ==
    IF i >= Len(ts) THEN replicas
    ELSE LET node_id == ts[((start_idx + i) % Len(ts)) + 1][2]
             pushed == Append(replicas, node_id)
         IN  IF Len(pushed) >= rf THEN pushed
             ELSE walk_noskip(ts, start_idx, i + 1, pushed,
                              seen_nodes \cup {node_id}, rf)

RECURSIVE walk(_, _, _, _, _, _)
\* SimpleStrategy::replicas_for_key, the loop "for i in 1..tokens.len()"
walk(ts, start_idx, i, replicas, seen_nodes, rf) ==
    IF i >= Len(ts) THEN replicas
    ELSE LET node_id == ts[((start_idx + i) % Len(ts)) + 1][2]
             pushed == Append(replicas, node_id)
         IN  IF node_id \in seen_nodes
             THEN walk(ts, start_idx, i + 1, replicas, seen_nodes, rf)
             ELSE IF Len(pushed) >= rf THEN pushed
             ELSE walk(ts, start_idx, i + 1, pushed, seen_nodes \cup {node_id}, rf)

replicas_after_lookup_first(rf, primary, toks) ==
    LET ts == tokens_vec(toks)
    IN  IF primary = None \/ ts = <<>> THEN <<>>
        ELSE walk(ts, 0, 1, <<ts[1][2]>>, {ts[1][2]}, rf)

\* SimpleStrategy::replicas_for_key from "let mut tokens = ring.tokens()" on:
\* primary is what ring.lookup returned, toks the ring at the tokens() call
replicas_after_lookup(rf, primary, toks) ==
    LET ts == tokens_vec(toks)
        p  == IF primary = None THEN None ELSE position_from(ts, primary[1], 0)
        start_idx == IF p = None THEN 0 ELSE p[1]
    IN  IF primary = None \/ ts = <<>> THEN <<>>
        ELSE walk(ts, start_idx, 1, <<primary[1]>>, {primary[1]}, rf)

replicas_for_key_nozero(rf, toks, key) ==
    replicas_after_lookup(rf, lookup(toks, key), toks)

\* SimpleStrategy::replicas_for_key with nothing running between its two
\* acquisitions
replicas_for_key(rf, toks, key) ==
    IF rf = 0 THEN <<>>
    ELSE replicas_after_lookup(rf, lookup(toks, key), toks)

\* ------------------------------------------------------------ token distance
\* an unsigned result reduced to the token width (u64 in the source)
wrap(x) == x % (TokenMax + 1)

\* Murmur3Token::distance_to / RandomToken::distance_to: the exact value of
\* every arithmetic operation it performs, in order, each on the stored
\* (width-reduced) results of the operations before it
distance_steps(a, b) ==
    IF b >= a THEN <<b - a>>
    ELSE LET s1 == TokenMax - a
             s2 == wrap(s1) + b
             s3 == wrap(s2) + 1
         IN  <<s1, s2, s3>>

distance_to_short(a, b) ==
    IF b >= a THEN wrap(b - a) ELSE wrap(wrap(TokenMax - a) + b)

\* Murmur3Token::distance_to / RandomToken::distance_to: the value returned
distance_to(a, b) ==
    LET st == distance_steps(a, b) IN wrap(st[Len(st)])

\* ByteOrderedToken::distance_to: a copy of the other token's bytes
byte_distance_to(a, b) == b

\* ------------------------------------------------------------- partitioners
Partitioners == {"Murmur3", "Random", "ByteOrdered"}

\* Vec<u8>::cmp (ByteOrderedToken's Ord): a <= b in lexicographic order, a
\* proper prefix being smaller; j is the index compared next
RECURSIVE vec_le(_, _, _)
vec_le(a, b, j) ==
    IF j > Len(a) THEN TRUE
    ELSE IF j > Len(b) THEN FALSE
    ELSE IF a[j] # b[j] THEN a[j] < b[j]
    ELSE vec_le(a, b, j + 1)

\* Ord of the partitioner's token type
token_le(p, a, b) == IF p = "ByteOrdered" THEN vec_le(a, b, 1) ELSE a <= b

\* Partitioner::partition: Murmur3 and Random hash the key with SipHash 1-3
\* under the default keys, ByteOrdered keeps the key's bytes
partition_with(p, key) == IF p = "ByteOrdered" THEN key ELSE from_bytes(key)

\* Partitioner::min_token: Token::zero()
min_token(p) == IF p = "ByteOrdered" THEN <<0>> ELSE 0

\* Partitioner::max_token: Token::max()
max_token(p) == IF p = "ByteOrdered" THEN <<255>> ELSE TokenMax

\* ----------------------------------------------------------------- Topology
ownership_unfiltered(ts) ==
    [id \in {ts[j][2] : j \in 1..Len(ts)} |-> [j \in 1..Len(ts) |-> ts[j][1]]]

\* Topology::ownership on the list ring.tokens() returned: NodeId -> its
\* tokens in ascending order
ownership(ts) ==
    [id \in {ts[j][2] : j \in 1..Len(ts)} |->
        LET mine(e) == e[2] = id
            own == SelectSeq(ts, mine)
        IN  [j \in 1..Len(own) |-> own[j][1]]]

\* "(tokens.len() as f64 / total_tokens) * 100.0", kept exact as the pair
\* <<numerator, denominator>> of the percentage
percentage(len, total_tokens) == <<len * 100, total_tokens>>

percentages_from_above_one(ts, total_tokens) ==
    IF total_tokens <= 1 THEN EmptyMap
    ELSE LET o == ownership(ts)
         IN  [id \in DOMAIN o |-> percentage(Len(o[id]), total_tokens)]

\* Topology::ownership_percentages from the values of its two reads: ts is
\* what ring.tokens() returned, total_tokens what ring.token_count() returned
percentages_from(ts, total_tokens) ==
    IF total_tokens = 0 THEN EmptyMap
    ELSE LET o == ownership(ts)
         IN  [id \in DOMAIN o |-> percentage(Len(o[id]), total_tokens)]

\* Topology::ownership_percentages with nothing running between its reads
ownership_percentages(toks) ==
    percentages_from(tokens_vec(toks), token_count(toks))

topology_replicas_for_key_walk(replica_count, toks, key) ==
    replicas_for_key(replica_count, toks, key)

\* Topology::replicas_for_key
topology_replicas_for_key(replica_count, toks, key) ==
    IF replica_count = 0 THEN <<>>
    ELSE LET primary == lookup(toks, key)
         IN  IF primary # None THEN <<primary[1]>> ELSE <<>>

\* HashRing::partitioner_name of the default ring
partitioner_name == "Murmur3Partitioner"

\* "nodes.sort_by_key(|(node_id, _)| *node_id)": the ids in ascending order
RECURSIVE sort_by_key(_)
sort_by_key(ids) ==
    IF ids = {} THEN <<>>
    ELSE LET m == CHOOSE x \in ids : \A y \in ids : x <= y
         IN  <<m>> \o sort_by_key(ids \ {m})

\* Topology::describe, one per-node line: the id, the name ring.get_node
\* gave (node) or "unknown", the length of the node's list in ownership,
\* and the percentage
describe_line(node_id, node, own, percentage_of) ==
    <<node_id,
      IF node = None THEN "unknown" ELSE node[1].name,
      IF node_id \in DOMAIN own THEN Len(own[node_id]) ELSE 0,
      percentage_of>>

\* Topology::describe with nothing running between its reads: the header
\* (node count, token count, partitioner name) and the per-node lines
describe(toks, nds) ==
    LET percentages == ownership_percentages(toks)
        own == ownership(tokens_vec(toks))
        ids == sort_by_key(DOMAIN percentages)
    IN  <<node_count(nds), token_count(toks), partitioner_name,
          [j \in 1..Len(ids) |->
              describe_line(ids[j], get_node(nds, ids[j]), own,
                            percentages[ids[j]])]>>

\* a completed call: the operation first, so that two calls compare by it
Call(op, arg, ret) == <<op, arg, ret>>

\* a thread's call in progress: its name first, then its arguments and locals
NoCall == <<"none">>
AddCall(node, vnodes, i) == <<"add_node", node, vnodes, i>>
RemoveCall(id, ret) == <<"remove_node", id, ret>>
LookupNodeCall(key, node_id, ret, during) == <<"lookup_node", key, node_id, ret, during>>
OwnershipCall(ts, ret) == <<"ownership_percentages", ts, ret>>
DescribeCall(hdr, ts, percentages, own, todo, lines) ==
    <<"describe", hdr, ts, percentages, own, todo, lines>>
\* SimpleStrategy::replicas_for_key: its arguments and locals (ts is its
\* "tokens"), and for reference the ring states that existed while it ran
ReplicasCall(rf, key, primary, ret, ts, during) ==
    <<"replicas_for_key", rf, key, primary, ret, ts, during>>
\* a RingBuilder a thread owns: its default_vnodes and, for reference, the
\* calls made on it so far (its ring is <<tokens, nodes>>)
Builder(default_vnodes, calls) == <<"builder", default_vnodes, calls>>
default_vnodes_of(l) == l[2]
calls_of(l) == l[3]
\* the adds made so far, kept by the one caller for reference: for every
\* NodeId, <<>> while it is absent, else <<V, overwritten>> with V the
\* largest vnode count passed to add_node for it since it was last absent
\* and overwritten telling whether another node's add took one of its tokens
Adds(h) == <<"adds", h>>
adds_of(l) == l[2]
\* the token a thread got from its latest partition call
PartitionCall(p, key, ret) == <<"partition", p, key, ret>>
op_of(l) == l[1]
node_of(l) == l[2]
vnodes_of(l) == l[3]
i_of(l) == l[4]
id_of(l) == l[2]
ret_of(l) == IF l[1] \in {"remove_node", "ownership_percentages"} THEN l[3] ELSE l[4]
key_of(l) == l[2]
node_id_of(l) == l[3]
during_of(l) == l[5]
ts_of(l) == l[2]

\* ------------------------------------------------- single caller (Spec)
Init ==
    /\ seed \in Seeds
    /\ tokens = EmptyMap
    /\ nodes = EmptyMap
    /\ last = Call("new", <<>>, <<>>)
    /\ wlock = 0
    /\ rlock = {}
    /\ pc = [t \in Threads |-> "idle"]
    /\ loc = [t \in Threads |-> NoCall]
    /\ ncalls = [t \in Threads |-> 0]
    /\ committed = <<EmptyMap, EmptyMap>>

\* HashRing::add_node(node, vnodes)
AddNode(id, name, v) ==
    LET r == add_node(tokens, nodes, Node(id, name), v)
    IN  /\ tokens' = r.tokens
        /\ nodes' = r.nodes
        /\ last' = Call("add_node", <<id, v, name>>, <<>>)
        /\ committed' = <<r.tokens, r.nodes>>
        /\ UNCHANGED <<seed, conc>>

\* HashRing::remove_node(node_id)
RemoveNode(id) ==
    LET r == remove_node(tokens, nodes, id)
    IN  /\ tokens' = r.tokens
        /\ nodes' = r.nodes
        /\ last' = Call("remove_node", <<id>>, r.ret)
        /\ committed' = <<r.tokens, r.nodes>>
        /\ UNCHANGED <<seed, conc>>

\* HashRing::lookup(key)
Lookup(key) ==
    /\ last' = Call("lookup", <<key>>, lookup(tokens, key))
    /\ UNCHANGED <<seed, ring, conc, committed>>

\* HashRing::lookup_node(key)
LookupNode(key) ==
    /\ last' = Call("lookup_node", <<key>>, lookup_node(tokens, nodes, key))
    /\ UNCHANGED <<seed, ring, conc, committed>>

GetNode_take(id) ==
    /\ last' = Call("get_node", <<id>>, get_node(nodes, id))
    /\ nodes' = Del(nodes, id)
    /\ UNCHANGED <<seed, tokens, conc, committed>>

\* HashRing::get_node(node_id)
GetNode(id) ==
    /\ last' = Call("get_node", <<id>>, get_node(nodes, id))
    /\ UNCHANGED <<seed, ring, conc, committed>>

\* HashRing::token_count / node_count
Counts ==
    /\ last' = Call("counts", <<>>, <<token_count(tokens), node_count(nodes)>>)
    /\ UNCHANGED <<seed, ring, conc, committed>>

\* HashRing::tokens()
TokensList ==
    /\ last' = Call("tokens", <<>>, tokens_vec(tokens))
    /\ UNCHANGED <<seed, ring, conc, committed>>

\* HashRing::nodes()
NodesList ==
    /\ last' = Call("nodes", <<>>, nodes_list(nodes))
    /\ UNCHANGED <<seed, ring, conc, committed>>

\* Murmur3Token(a).distance_to(&Murmur3Token(b)), and the same of RandomToken
Distance(a, b) ==
    /\ last' = Call("distance_to", <<a, b>>, distance_to(a, b))
    /\ UNCHANGED <<seed, ring, conc, committed>>

\* ByteOrderedToken(a).distance_to(&ByteOrderedToken(b))
ByteDistance(a, b) ==
    /\ last' = Call("byte_distance_to", <<a, b>>, byte_distance_to(a, b))
    /\ UNCHANGED <<seed, ring, conc, committed>>

\* Partitioner::partition(key) of one of the three partitioners
Partition(p, key) ==
    /\ last' = Call("partition", <<p, key>>, partition_with(p, key))
    /\ UNCHANGED <<seed, ring, conc, committed>>

ThreadPartition_rekeyed(t, p, key) ==
    /\ loc' = [loc EXCEPT ![t] = PartitionCall(p, key, partition_with(p, key))]
    /\ seed' \in Seeds
    /\ UNCHANGED <<ring, last, wlock, rlock, pc, ncalls, committed>>

\* Partitioner::partition(key) called by thread t, which keeps the token:
\* the hashers are made by SipHasher13::new() and DefaultHasher::new(),
\* whose keys are the same at every call
ThreadPartition(t, p, key) ==
    /\ loc' = [loc EXCEPT ![t] = PartitionCall(p, key, partition_with(p, key))]
    /\ UNCHANGED <<seed, ring, last, wlock, rlock, pc, ncalls, committed>>

\* SimpleStrategy::new(rf).replicas_for_key(ring, key)
SimpleReplicas(rf, key) ==
    /\ last' = Call("replicas_for_key", <<rf, key>>, replicas_for_key(rf, tokens, key))
    /\ UNCHANGED <<seed, ring, conc, committed>>

\* Topology::ownership_percentages()
OwnershipPercentages ==
    /\ last' = Call("ownership_percentages", <<>>, ownership_percentages(tokens))
    /\ UNCHANGED <<seed, ring, conc, committed>>

\* Topology::replicas_for_key(key, replica_count)
TopologyReplicas(replica_count, key) ==
    /\ last' = Call("topology_replicas_for_key", <<replica_count, key>>,
                    topology_replicas_for_key(replica_count, tokens, key))
    /\ UNCHANGED <<seed, ring, conc, committed>>

\* Topology::ownership()
Ownership ==
    /\ last' = Call("ownership", <<>>, ownership(tokens_vec(tokens)))
    /\ UNCHANGED <<seed, ring, conc, committed>>

\* Topology::describe()
Describe ==
    /\ last' = Call("describe", <<>>, describe(tokens, nodes))
    /\ UNCHANGED <<seed, ring, conc, committed>>

Next ==
    \/ \E id \in NodeIds, name \in Names, v \in VnodeCounts : AddNode(id, name, v)
    \/ \E id \in NodeIds : RemoveNode(id)
    \/ \E key \in Keys : Lookup(key)
    \/ \E key \in Keys : LookupNode(key)
    \/ \E id \in NodeIds : GetNode(id)
    \/ Counts
    \/ \E rf \in Factors, key \in Keys : SimpleReplicas(rf, key)
    \/ TokensList
    \/ NodesList
    \/ OwnershipPercentages
    \/ \E rf \in Factors, key \in Keys : TopologyReplicas(rf, key)
    \/ Ownership
    \/ Describe

Spec == Init /\ [][Next]_vars

\* the token types and the partitioners used on their own, without a ring
TokenNext ==
    \/ \E a \in Tokens, b \in Tokens : Distance(a, b)
    \/ \E a \in PartKeys, b \in PartKeys : ByteDistance(a, b)
    \/ \E p \in Partitioners, key \in PartKeys : Partition(p, key)
    \/ \E t \in Threads, p \in Partitioners, key \in PartKeys :
          ThreadPartition(t, p, key)

TokenSpec == Init /\ [][TokenNext]_vars

\* ------------------------------------- single caller, adds remembered
VnodeInit ==
    /\ seed \in Seeds
    /\ tokens = EmptyMap
    /\ nodes = EmptyMap
    /\ last = Call("new", <<>>, <<>>)
    /\ wlock = 0
    /\ rlock = {}
    /\ pc = [t \in Threads |-> "idle"]
    /\ loc = [t \in Threads |->
                IF t = 1 THEN Adds([id \in NodeIds |-> <<>>]) ELSE NoCall]
    /\ ncalls = [t \in Threads |-> 0]
    /\ committed = <<EmptyMap, EmptyMap>>

\* HashRing::add_node(node, vnodes), the call remembered
VAddNode(id, name, v) ==
    LET r == add_node(tokens, nodes, Node(id, name), v)
        h == adds_of(loc[1])
        taken == {y \in DOMAIN tokens : tokens[y] # id /\ r.tokens[y] = id}
    IN  /\ tokens' = r.tokens
        /\ nodes' = r.nodes
        /\ last' = Call("add_node", <<id, v, name>>, <<>>)
        /\ committed' = <<r.tokens, r.nodes>>
        /\ loc' = [loc EXCEPT ![1] = Adds(
               [n \in NodeIds |->
                   IF n = id
                   THEN IF h[n] = <<>> THEN <<v, FALSE>>
                        ELSE <<IF v > h[n][1] THEN v ELSE h[n][1], h[n][2]>>
                   ELSE IF h[n] # <<>> /\ \E y \in taken : tokens[y] = n
                   THEN <<h[n][1], TRUE>>
                   ELSE h[n]])]
        /\ UNCHANGED <<seed, wlock, rlock, pc, ncalls>>

\* HashRing::remove_node(node_id), the call remembered
VRemoveNode(id) ==
    LET r == remove_node(tokens, nodes, id)
    IN  /\ tokens' = r.tokens
        /\ nodes' = r.nodes
        /\ last' = Call("remove_node", <<id>>, r.ret)
        /\ committed' = <<r.tokens, r.nodes>>
        /\ loc' = [loc EXCEPT ![1] = Adds([adds_of(loc[1]) EXCEPT ![id] = <<>>])]
        /\ UNCHANGED <<seed, wlock, rlock, pc, ncalls>>

VnodeNext ==
    \/ \E id \in NodeIds, name \in Names, v \in VnodeCounts : VAddNode(id, name, v)
    \/ \E id \in NodeIds : VRemoveNode(id)

VnodeSpec == VnodeInit /\ [][VnodeNext]_vars

\* ------------------------------------------------- RingBuilder
\* RingBuilder::new(): an empty ring and the default vnode count
BuilderInit ==
    /\ seed \in Seeds
    /\ tokens = EmptyMap
    /\ nodes = EmptyMap
    /\ last = Call("new", <<>>, <<>>)
    /\ wlock = 0
    /\ rlock = {}
    /\ pc = [t \in Threads |-> "idle"]
    /\ loc = [t \in Threads |-> IF t = 1 THEN Builder(DefaultVnodes, <<>>) ELSE NoCall]
    /\ ncalls = [t \in Threads |-> 0]
    /\ committed = <<EmptyMap, EmptyMap>>

\* a method of the builder thread 1 owns is called: the builder's ring
\* becomes r and its default default_vnodes
BuilderStep(call, default_vnodes, r) ==
    /\ op_of(loc[1]) = "builder"
    /\ Len(calls_of(loc[1])) < MaxBuilderCalls
    /\ tokens' = r.tokens
    /\ nodes' = r.nodes
    /\ loc' = [loc EXCEPT ![1] = Builder(default_vnodes, Append(calls_of(loc[1]), call))]
    /\ last' = Call(call[1], call, <<>>)
    /\ committed' = <<r.tokens, r.nodes>>
    /\ UNCHANGED <<seed, wlock, rlock, pc, ncalls>>

\* RingBuilder::with_vnodes(vnodes)
BWithVnodes(vnodes) ==
    BuilderStep(<<"with_vnodes", vnodes>>, vnodes,
                [tokens |-> tokens, nodes |-> nodes])

BAddNodeWithVnodes_sets_default(node, vnodes) ==
    BuilderStep(<<"add_node_with_vnodes", node, vnodes>>, vnodes,
                add_node(tokens, nodes, node, vnodes))

\* RingBuilder::add_node(node)
BAddNode(node) ==
    BuilderStep(<<"add_node", node>>, default_vnodes_of(loc[1]),
                add_node(tokens, nodes, node, default_vnodes_of(loc[1])))

\* RingBuilder::add_node_with_vnodes(node, vnodes)
BAddNodeWithVnodes(node, vnodes) ==
    BuilderStep(<<"add_node_with_vnodes", node, vnodes>>, default_vnodes_of(loc[1]),
                add_node(tokens, nodes, node, vnodes))

\* RingBuilder::build(): the builder is consumed and its ring returned
BBuild ==
    /\ op_of(loc[1]) = "builder"
    /\ last' = Call("build", calls_of(loc[1]), <<tokens, nodes>>)
    /\ loc' = [loc EXCEPT ![1] = NoCall]
    /\ UNCHANGED <<seed, ring, wlock, rlock, pc, ncalls, committed>>

BuilderNext ==
    \/ \E vnodes \in VnodeCounts : BWithVnodes(vnodes)
    \/ \E id \in NodeIds, name \in Names : BAddNode(Node(id, name))
    \/ \E id \in NodeIds, name \in Names, vnodes \in VnodeCounts :
          BAddNodeWithVnodes(Node(id, name), vnodes)
    \/ BBuild

BuilderSpec == BuilderInit /\ [][BuilderNext]_vars

\* ------------------------------------------- concurrent callers (Conc)
\* RingBuilder::new().with_vnodes(v).add_node(1) ... .add_node(k).build():
\* the ring a single thread builds before it is shared
RECURSIVE built(_, _)
built(k, v) ==
    IF k = 0 THEN [tokens |-> EmptyMap, nodes |-> EmptyMap]
    ELSE LET b == built(k - 1, v)
         IN  add_node(b.tokens, b.nodes, Node(k, "a"), v)

ConcInit ==
    /\ seed \in Seeds
    /\ \E k \in 0..NumNodes, v \in 1..MaxVnodes :
          /\ tokens = built(k, v).tokens
          /\ nodes = built(k, v).nodes
    /\ last = Call("new", <<>>, <<>>)
    /\ wlock = 0
    /\ rlock = {}
    /\ pc = [t \in Threads |-> "idle"]
    /\ loc = [t \in Threads |-> NoCall]
    /\ ncalls = [t \in Threads |-> 0]
    /\ committed = <<tokens, nodes>>

write_available_nowait == wlock = 0

\* RwLock::write: granted when no thread holds the lock in either mode
write_available == wlock = 0 /\ rlock = {}

\* RwLock::read: granted when no thread holds the write acquisition
read_available == wlock = 0

\* a lookup_node call in progress records what lookup_node_optimized would
\* return on every ring value that exists while it runs
Observe(u, toks, nds) ==
    IF op_of(loc[u]) = "lookup_node" /\ pc[u] # "ln_done"
    THEN [loc[u] EXCEPT ![5] =
              @ \cup {lookup_node_optimized(toks, nds, key_of(loc[u]))}]
    ELSE IF op_of(loc[u]) = "replicas_for_key" /\ pc[u] # "sr_done"
    THEN [loc[u] EXCEPT ![7] = @ \cup {<<toks, nds>>}]
    ELSE loc[u]

\* thread t's locals become l, the ring becomes <<toks, nds>>
Step(t, l, toks, nds) ==
    /\ tokens' = toks
    /\ nodes' = nds
    /\ loc' = [u \in Threads |-> IF u = t THEN l ELSE Observe(u, toks, nds)]

Goto(t, label) == pc' = [pc EXCEPT ![t] = label]

CallStart(t, label, l) ==
    /\ pc[t] = "idle"
    /\ ncalls[t] < MaxCalls
    /\ ncalls' = [ncalls EXCEPT ![t] = @ + 1]
    /\ Goto(t, label)
    /\ loc' = [loc EXCEPT ![t] = l]
    /\ UNCHANGED <<seed, ring, last, wlock, rlock, committed>>

\* HashRing::add_node(node, vnodes), called
CAddStart(t, id, name, v) ==
    CallStart(t, "add_lock", AddCall(Node(id, name), v, 0))

\* HashRing::add_node: "let mut inner = self.inner.write()"
CAddLock(t) ==
    /\ pc[t] = "add_lock"
    /\ write_available
    /\ wlock' = t
    /\ Goto(t, "add_meta")
    /\ UNCHANGED <<seed, ring, last, rlock, loc, ncalls, committed>>

\* RingInner::add_node: the metadata insert
CAddMeta(t) ==
    /\ pc[t] = "add_meta"
    /\ Step(t, loc[t], tokens, insert_meta(nodes, node_of(loc[t])))
    /\ Goto(t, "add_loop")
    /\ UNCHANGED <<seed, last, wlock, rlock, ncalls, committed>>

\* RingInner::add_node: one pass of "for i in 0..vnodes"
CAddVnode(t) ==
    /\ pc[t] = "add_loop"
    /\ i_of(loc[t]) < vnodes_of(loc[t])
    /\ Step(t, AddCall(node_of(loc[t]), vnodes_of(loc[t]), i_of(loc[t]) + 1),
            insert_vnode(tokens, node_of(loc[t]).id, i_of(loc[t])), nodes)
    /\ UNCHANGED <<seed, last, wlock, rlock, pc, ncalls, committed>>

\* HashRing::add_node returns: the write guard is dropped
CAddUnlock(t) ==
    /\ pc[t] = "add_loop"
    /\ i_of(loc[t]) >= vnodes_of(loc[t])
    /\ wlock' = 0
    /\ committed' = <<tokens, nodes>>
    /\ Goto(t, "idle")
    /\ loc' = [loc EXCEPT ![t] = NoCall]
    /\ UNCHANGED <<seed, ring, last, rlock, ncalls>>

\* HashRing::remove_node(node_id), called
CRemoveStart(t, id) ==
    CallStart(t, "rm_lock", RemoveCall(id, FALSE))

\* HashRing::remove_node: "let mut inner = self.inner.write()"
CRemoveLock(t) ==
    /\ pc[t] = "rm_lock"
    /\ write_available
    /\ wlock' = t
    /\ Goto(t, "rm_check")
    /\ UNCHANGED <<seed, ring, last, rlock, loc, ncalls, committed>>

\* RingInner::remove_node: "if !self.nodes.contains_key(node_id)"
CRemoveCheck(t) ==
    /\ pc[t] = "rm_check"
    /\ Goto(t, IF id_of(loc[t]) \in DOMAIN nodes THEN "rm_retain" ELSE "rm_unlock")
    /\ UNCHANGED <<seed, ring, last, wlock, rlock, loc, ncalls, committed>>

\* RingInner::remove_node: retain drops one entry mapped to the node
CRemoveRetain(t) ==
    /\ pc[t] = "rm_retain"
    /\ owned_by(tokens, id_of(loc[t])) # {}
    /\ Step(t, loc[t], retain_step(tokens, id_of(loc[t])), nodes)
    /\ UNCHANGED <<seed, last, wlock, rlock, pc, ncalls, committed>>

\* RingInner::remove_node: "self.nodes.remove(node_id); true"
CRemoveMeta(t) ==
    /\ pc[t] = "rm_retain"
    /\ owned_by(tokens, id_of(loc[t])) = {}
    /\ Step(t, RemoveCall(id_of(loc[t]), TRUE), tokens, Del(nodes, id_of(loc[t])))
    /\ Goto(t, "rm_unlock")
    /\ UNCHANGED <<seed, last, wlock, rlock, ncalls, committed>>

\* HashRing::remove_node returns: the write guard is dropped
CRemoveUnlock(t) ==
    /\ pc[t] = "rm_unlock"
    /\ wlock' = 0
    /\ committed' = <<tokens, nodes>>
    /\ Goto(t, "idle")
    /\ loc' = [loc EXCEPT ![t] = NoCall]
    /\ UNCHANGED <<seed, ring, last, rlock, ncalls>>

\* HashRing::lookup_node(key), called
CLookupNodeStart(t, key) ==
    CallStart(t, "ln_lock1",
              LookupNodeCall(key, None, None,
                             {lookup_node_optimized(tokens, nodes, key)}))

\* HashRing::lookup: "let inner = self.inner.read()"
CLookupNodeLock1(t) ==
    /\ pc[t] = "ln_lock1"
    /\ read_available
    /\ rlock' = rlock \cup {t}
    /\ Goto(t, "ln_read1")
    /\ UNCHANGED <<seed, ring, last, wlock, loc, ncalls, committed>>

\* HashRing::lookup: node_for_token under the guard, which is then dropped;
\* "self.lookup(key)?" returns None at once
CLookupNodeRead1(t) ==
    LET r == node_for_token(tokens, partition(key_of(loc[t])))
    IN  /\ pc[t] = "ln_read1"
        /\ rlock' = rlock \ {t}
        /\ loc' = [loc EXCEPT ![t][3] = r]
        /\ Goto(t, IF r = None THEN "ln_done" ELSE "ln_lock2")
        /\ UNCHANGED <<seed, ring, last, wlock, ncalls, committed>>

\* HashRing::lookup_node: the second "self.inner.read()"
CLookupNodeLock2(t) ==
    /\ pc[t] = "ln_lock2"
    /\ read_available
    /\ rlock' = rlock \cup {t}
    /\ Goto(t, "ln_read2")
    /\ UNCHANGED <<seed, ring, last, wlock, loc, ncalls, committed>>

\* HashRing::lookup_node: "inner.get_node(&node_id).cloned()"
CLookupNodeRead2(t) ==
    /\ pc[t] = "ln_read2"
    /\ rlock' = rlock \ {t}
    /\ loc' = [loc EXCEPT ![t][4] = get_node(nodes, node_id_of(loc[t])[1])]
    /\ Goto(t, "ln_done")
    /\ UNCHANGED <<seed, ring, last, wlock, ncalls, committed>>

\* Topology::ownership_percentages(), called
COwnershipStart(t) ==
    CallStart(t, "op_lock1", OwnershipCall(<<>>, EmptyMap))

\* Topology::ownership -> HashRing::tokens: "let inner = self.inner.read()"
COwnershipLock1(t) ==
    /\ pc[t] = "op_lock1"
    /\ read_available
    /\ rlock' = rlock \cup {t}
    /\ Goto(t, "op_read1")
    /\ UNCHANGED <<seed, ring, last, wlock, loc, ncalls, committed>>

\* HashRing::tokens: inner.tokens() under the guard, which is then dropped
COwnershipRead1(t) ==
    /\ pc[t] = "op_read1"
    /\ rlock' = rlock \ {t}
    /\ loc' = [loc EXCEPT ![t] = OwnershipCall(tokens_vec(tokens), EmptyMap)]
    /\ Goto(t, "op_lock2")
    /\ UNCHANGED <<seed, ring, last, wlock, ncalls, committed>>

\* Topology::ownership_percentages -> HashRing::token_count:
\* "let inner = self.inner.read()"
COwnershipLock2(t) ==
    /\ pc[t] = "op_lock2"
    /\ read_available
    /\ rlock' = rlock \cup {t}
    /\ Goto(t, "op_read2")
    /\ UNCHANGED <<seed, ring, last, wlock, loc, ncalls, committed>>

\* HashRing::token_count under the guard, then the percentages are computed
COwnershipRead2(t) ==
    /\ pc[t] = "op_read2"
    /\ rlock' = rlock \ {t}
    /\ loc' = [loc EXCEPT ![t] =
                  OwnershipCall(ts_of(loc[t]),
                                percentages_from(ts_of(loc[t]), token_count(tokens)))]
    /\ Goto(t, "op_done")
    /\ UNCHANGED <<seed, ring, last, wlock, ncalls, committed>>

\* Topology::describe(), called
CDescribeStart(t) ==
    CallStart(t, "ds_lock1", DescribeCall(<<>>, <<>>, EmptyMap, EmptyMap, <<>>, <<>>))

\* Topology::describe: the read acquisitions of the HashRing methods it
\* calls, in order: node_count, token_count, tokens and token_count (in
\* ownership_percentages), tokens (in ownership), get_node (per line)
DescribeReads ==
    [ds_lock1 |-> "ds_read1", ds_lock2 |-> "ds_read2", ds_lock3 |-> "ds_read3",
     ds_lock4 |-> "ds_read4", ds_lock5 |-> "ds_read5", ds_lock6 |-> "ds_read6"]

\* "let inner = self.inner.read()" of the method describe calls next
CDescribeLock(t) ==
    /\ pc[t] \in DOMAIN DescribeReads
    /\ read_available
    /\ rlock' = rlock \cup {t}
    /\ Goto(t, DescribeReads[pc[t]])
    /\ UNCHANGED <<seed, ring, last, wlock, loc, ncalls, committed>>

ReadDone_hold(t, l, label) ==
    /\ loc' = [loc EXCEPT ![t] = l]
    /\ Goto(t, label)
    /\ UNCHANGED <<seed, ring, last, wlock, rlock, ncalls, committed>>

\* thread t's read under the guard, which is then dropped: its locals
\* become l and it goes to label
ReadDone(t, l, label) ==
    /\ rlock' = rlock \ {t}
    /\ loc' = [loc EXCEPT ![t] = l]
    /\ Goto(t, label)
    /\ UNCHANGED <<seed, ring, last, wlock, ncalls, committed>>

\* Topology::describe: the header's "self.ring.node_count()"
CDescribeNodeCount(t) ==
    /\ pc[t] = "ds_read1"
    /\ ReadDone(t, [loc[t] EXCEPT ![2] = <<node_count(nodes)>>], "ds_lock2")

\* Topology::describe: the header's "self.ring.token_count()"
CDescribeTokenCount(t) ==
    /\ pc[t] = "ds_read2"
    /\ ReadDone(t, [loc[t] EXCEPT ![2] = @ \o <<token_count(tokens)>>], "ds_lock3")

\* Topology::ownership_percentages -> ownership -> "self.ring.tokens()"
CDescribeTokens(t) ==
    /\ pc[t] = "ds_read3"
    /\ ReadDone(t, [loc[t] EXCEPT ![3] = tokens_vec(tokens)], "ds_lock4")

\* Topology::ownership_percentages: "self.ring.token_count()", then the
\* percentages are computed
CDescribePercentages(t) ==
    /\ pc[t] = "ds_read4"
    /\ ReadDone(t, [loc[t] EXCEPT
                        ![3] = <<>>,
                        ![4] = percentages_from(loc[t][3], token_count(tokens))],
                "ds_lock5")

\* Topology::describe: "let ownership = self.ownership()", then the nodes of
\* percentages are sorted; with none the description is complete
CDescribeOwnership(t) ==
    LET todo == sort_by_key(DOMAIN loc[t][4])
    IN  /\ pc[t] = "ds_read5"
        /\ ReadDone(t, [loc[t] EXCEPT
                            ![5] = ownership(tokens_vec(tokens)),
                            ![6] = todo],
                    IF todo = <<>> THEN "ds_done" ELSE "ds_lock6")

\* Topology::describe: one pass of "for (node_id, percentage) in nodes",
\* with its "self.ring.get_node(node_id)"
CDescribeLine(t) ==
    LET node_id == Head(loc[t][6])
        line == describe_line(node_id, get_node(nodes, node_id), loc[t][5],
                              loc[t][4][node_id])
    IN  /\ pc[t] = "ds_read6"
        /\ ReadDone(t, [loc[t] EXCEPT
                            ![6] = Tail(@),
                            ![7] = Append(@, line)],
                    IF Tail(loc[t][6]) = <<>> THEN "ds_done" ELSE "ds_lock6")

\* SimpleStrategy::new(rf).replicas_for_key(ring, key), called: with
\* replication_factor 0 it returns at once
CReplicasStart(t, rf, key) ==
    CallStart(t, IF rf = 0 THEN "sr_done" ELSE "sr_lock1",
              ReplicasCall(rf, key, None, <<>>, <<>>, {<<tokens, nodes>>}))

\* the read acquisition of ring.lookup, then of ring.tokens
CReplicasLock(t) ==
    /\ pc[t] \in {"sr_lock1", "sr_lock2"}
    /\ read_available
    /\ rlock' = rlock \cup {t}
    /\ Goto(t, IF pc[t] = "sr_lock1" THEN "sr_read1" ELSE "sr_read2")
    /\ UNCHANGED <<seed, ring, last, wlock, loc, ncalls, committed>>

\* SimpleStrategy::replicas_for_key: "ring.lookup(key)"; None returns
CReplicasLookup(t) ==
    LET primary == node_for_token(tokens, partition(loc[t][3]))
    IN  /\ pc[t] = "sr_read1"
        /\ ReadDone(t, [loc[t] EXCEPT ![4] = primary],
                    IF primary = None THEN "sr_done" ELSE "sr_lock2")

\* SimpleStrategy::replicas_for_key: "ring.tokens()", then the walk
CReplicasWalk(t) ==
    /\ pc[t] = "sr_read2"
    /\ ReadDone(t, [loc[t] EXCEPT
                        ![5] = replicas_after_lookup(loc[t][2], loc[t][4], tokens),
                        ![6] = tokens_vec(tokens)],
                "sr_done")

\* the caller takes the result of its finished call
CReturn(t) ==
    /\ pc[t] \in {"ln_done", "op_done", "ds_done", "sr_done"}
    /\ Goto(t, "idle")
    /\ loc' = [loc EXCEPT ![t] = NoCall]
    /\ UNCHANGED <<seed, ring, last, wlock, rlock, ncalls, committed>>

ConcNext ==
    \E t \in Threads :
        \/ \E id \in NodeIds, name \in Names, v \in VnodeCounts : CAddStart(t, id, name, v)
        \/ CAddLock(t)
        \/ CAddMeta(t)
        \/ CAddVnode(t)
        \/ CAddUnlock(t)
        \/ \E id \in NodeIds : CRemoveStart(t, id)
        \/ CRemoveLock(t)
        \/ CRemoveCheck(t)
        \/ CRemoveRetain(t)
        \/ CRemoveMeta(t)
        \/ CRemoveUnlock(t)
        \/ \E key \in Keys : CLookupNodeStart(t, key)
        \/ CLookupNodeLock1(t)
        \/ CLookupNodeRead1(t)
        \/ CLookupNodeLock2(t)
        \/ CLookupNodeRead2(t)
        \/ COwnershipStart(t)
        \/ COwnershipLock1(t)
        \/ COwnershipRead1(t)
        \/ COwnershipLock2(t)
        \/ COwnershipRead2(t)
        \/ CDescribeStart(t)
        \/ CDescribeLock(t)
        \/ CDescribeNodeCount(t)
        \/ CDescribeTokenCount(t)
        \/ CDescribeTokens(t)
        \/ CDescribePercentages(t)
        \/ CDescribeOwnership(t)
        \/ CDescribeLine(t)
        \/ \E rf \in Factors, key \in Keys : CReplicasStart(t, rf, key)
        \/ CReplicasLock(t)
        \/ CReplicasLookup(t)
        \/ CReplicasWalk(t)
        \/ CReturn(t)

Conc == ConcInit /\ [][ConcNext]_vars

\* ------------------------------------------- Conc with a fair lock
\* thread t's requests for the write acquisition
WriteLocks(t) == CAddLock(t) \/ CRemoveLock(t)

\* thread t's requests for a read acquisition
ReadLocks(t) ==
    \/ CLookupNodeLock1(t) \/ CLookupNodeLock2(t)
    \/ COwnershipLock1(t) \/ COwnershipLock2(t)
    \/ CDescribeLock(t)
    \/ CReplicasLock(t)

\* the steps thread t takes on its own, inside a call it has started
Runs(t) ==
    \/ CAddMeta(t) \/ CAddVnode(t) \/ CAddUnlock(t)
    \/ CRemoveCheck(t) \/ CRemoveRetain(t) \/ CRemoveMeta(t) \/ CRemoveUnlock(t)
    \/ CLookupNodeRead1(t) \/ CLookupNodeRead2(t)
    \/ COwnershipRead1(t) \/ COwnershipRead2(t)
    \/ CDescribeNodeCount(t) \/ CDescribeTokenCount(t) \/ CDescribeTokens(t)
    \/ CDescribePercentages(t) \/ CDescribeOwnership(t) \/ CDescribeLine(t)
    \/ CReplicasLookup(t) \/ CReplicasWalk(t)
    \/ CReturn(t)

\* some thread is waiting for the write acquisition
WriterWaiting == \E u \in Threads : pc[u] \in {"add_lock", "rm_lock"}

\* the shared ring of Conc under one hasher (the hash values play no part
\* in the locking)
FairInit == ConcInit /\ seed = 0

\* a running thread keeps running; the lock is fair: a write request that
\* can be granted again and again is granted, and so is a read request,
\* which the lock may hold back for as long as a writer is waiting
ConcFair ==
    /\ FairInit
    /\ [][ConcNext]_vars
    /\ \A t \in Threads :
          /\ WF_vars(Runs(t))
          /\ SF_vars(WriteLocks(t))
          /\ SF_vars(~WriterWaiting /\ ReadLocks(t))

\* =================================================================== claims
MinOf(S) == CHOOSE x \in S : \A y \in S : x <= y

\* the owner the clockwise rule names for token t: the node stored at the
\* smallest stored token >= t, else at the smallest stored token
ClockwiseOwner(toks, t) ==
    LET ge == {s \in DOMAIN toks : s >= t}
    IN  IF DOMAIN toks = {} THEN None
        ELSE IF ge # {} THEN Some(toks[MinOf(ge)])
        ELSE Some(toks[MinOf(DOMAIN toks)])

NoDuplicates(sq) == \A i, j \in 1..Len(sq) : i # j => sq[i] # sq[j]

Owners(toks) == {toks[t] : t \in DOMAIN toks}

\* C1: in every ring state reached by add_node/remove_node, lookup(k) returns
\* for every key k the NodeId stored at the smallest stored token >=
\* partition(k), and the NodeId at the smallest stored token when no stored
\* token is >= partition(k); so does every completed lookup call.
C1_LookupClockwise ==
    /\ \A k \in Keys : lookup(tokens, k) = ClockwiseOwner(tokens, partition(k))
    /\ LastOp = "lookup" =>
          LastRet = ClockwiseOwner(tokens, partition(LastArg[1]))

\* a lookup that wrapped around: the key's token is past every stored token,
\* and the ring has tokens of two nodes
C1_Witness ==
    /\ LastOp = "lookup"
    /\ Cardinality(Owners(tokens)) >= 2
    /\ \A s \in DOMAIN tokens : s < partition(LastArg[1])
    /\ LastRet = Some(tokens[MinOf(DOMAIN tokens)])

\* C2 (as claimed): when add_node(node, v), v >= 1, has just registered node
\* as the only node, with v tokens, adding the same node with v vnodes again
\* keeps node_count at 1 and raises token_count by v again.
C2_SecondAddAppends ==
    ( /\ LastOp = "add_node"
      /\ LastArg[2] >= 1
      /\ node_count(nodes) = 1
      /\ token_count(tokens) = LastArg[2] )
    => LET again == add_node(tokens, nodes, nodes[LastArg[1]], LastArg[2])
       IN  /\ node_count(again.nodes) = 1
           /\ token_count(again.tokens) = token_count(tokens) + LastArg[2]

\* C4: a remove_node(id) of a registered id leaves no token mapped to id, no
\* metadata for id, one node less, and no key resolving to id; and while id
\* is absent, every step other than add_node(id, _) keeps it so.
C4_RemoveCompletes ==
    [][ /\ \A id \in NodeIds :
             (LastOp' = "remove_node" /\ LastArg'[1] = id /\ id \in DOMAIN nodes)
             => ( /\ id \notin Owners(tokens')
                  /\ get_node(nodes', id) = None
                  /\ node_count(nodes') = node_count(nodes) - 1
                  /\ \A k \in Keys : lookup(tokens', k) # Some(id) )
        /\ \A id \in NodeIds :
             ( /\ id \notin DOMAIN nodes /\ id \notin Owners(tokens)
               /\ ~(LastOp' = "add_node" /\ LastArg'[1] = id) )
             => ( /\ id \notin DOMAIN nodes' /\ id \notin Owners(tokens')
                  /\ \A k \in Keys : lookup(tokens', k) # Some(id) ) ]_vars

\* a successful remove that left tokens of another node behind
C4_Witness ==
    /\ LastOp = "remove_node" /\ LastRet = TRUE
    /\ LastArg[1] \notin DOMAIN nodes
    /\ tokens # EmptyMap

\* C5: remove_node(id) of an id absent from the registry returns false and
\* changes neither the token index nor the registry, so a repeated call
\* returns false again.
C5_RemoveAbsent ==
    [][ (LastOp' = "remove_node" /\ LastArg'[1] \notin DOMAIN nodes)
        => ( /\ LastRet' = FALSE
             /\ tokens' = tokens /\ nodes' = nodes
             /\ remove_node(tokens', nodes', LastArg'[1]).ret = FALSE ) ]_vars

\* a remove of an absent id on a ring that holds other nodes and tokens
C5_Witness ==
    /\ LastOp = "remove_node" /\ LastRet = FALSE
    /\ nodes # EmptyMap /\ tokens # EmptyMap

\* C8 (as claimed): replicas_for_key of SimpleStrategy(n) returns at most n
\* and at most min(n, node_count) entries, for every n including 1.
C8_AtMostN ==
    LastOp = "replicas_for_key" =>
        /\ Len(LastRet) <= LastArg[1]
        /\ Len(LastRet) <= node_count(nodes)

\* C9: the list replicas_for_key returns never holds a NodeId twice.
C9_Distinct ==
    /\ \A rf \in Factors, k \in Keys : NoDuplicates(replicas_for_key(rf, tokens, k))
    /\ LastOp = "replicas_for_key" => NoDuplicates(LastRet)

\* a call that returned two nodes although the walk met a further token of
\* a node already collected
C9_Witness ==
    /\ LastOp = "replicas_for_key"
    /\ Len(LastRet) >= 2
    /\ token_count(tokens) > Cardinality(Owners(tokens))
    /\ Cardinality(owned_by(tokens, LastRet[1])) >= 2

\* C10: a non-empty result of replicas_for_key (n >= 1) starts with the node
\* ring.lookup(key) returns on the same ring.
C10_PrimaryFirst ==
    /\ \A rf \in Factors, k \in Keys :
          LET r == replicas_for_key(rf, tokens, k)
          IN  (rf >= 1 /\ r # <<>>) => Some(r[1]) = lookup(tokens, k)
    /\ (LastOp = "replicas_for_key" /\ LastArg[1] >= 1 /\ LastRet # <<>>)
          => Some(LastRet[1]) = lookup(tokens, LastArg[2])

\* a call whose primary does not own the first token of the ring
C10_Witness ==
    /\ LastOp = "replicas_for_key" /\ LastArg[1] >= 2
    /\ Len(LastRet) >= 2
    /\ tokens[MinOf(DOMAIN tokens)] # LastRet[1]

MinNat(a, b) == IF a <= b THEN a ELSE b

\* C11: on a ring where D distinct nodes own a token, replicas_for_key of
\* SimpleStrategy(n) returns at least min(n, D) entries, for every key; so it
\* falls short of n only when fewer than n nodes own tokens.
C11_AtLeastMin ==
    /\ \A rf \in Factors, k \in Keys :
          Len(replicas_for_key(rf, tokens, k))
              >= MinNat(rf, Cardinality(Owners(tokens)))
    /\ LastOp = "replicas_for_key" =>
          Len(LastRet) >= MinNat(LastArg[1], Cardinality(Owners(tokens)))

\* n = 3 over three token-owning nodes, one of them with several tokens:
\* three entries
C11_Witness ==
    /\ LastOp = "replicas_for_key" /\ LastArg[1] = 3
    /\ Cardinality(Owners(tokens)) = 3
    /\ token_count(tokens) > 3
    /\ Len(LastRet) = 3

\* the NodeIds of seq, as a set
Members(sq) == {sq[i] : i \in 1..Len(sq)}

\* the first n distinct NodeIds met on the stored tokens t0, t0 + 1, ...
\* taken clockwise with wraparound; d counts the positions already passed
RECURSIVE ClockwiseDistinct(_, _, _, _, _)
ClockwiseDistinct(toks, t0, d, acc, n) ==
    IF d > TokenMax \/ Len(acc) >= n THEN acc
    ELSE LET s == (t0 + d) % (TokenMax + 1)
         IN  IF s \in DOMAIN toks /\ toks[s] \notin Members(acc)
             THEN ClockwiseDistinct(toks, t0, d + 1, Append(acc, toks[s]), n)
             ELSE ClockwiseDistinct(toks, t0, d + 1, acc, n)

\* C12 (as claimed): the list replicas_for_key returns is the sequence of the
\* first n distinct NodeIds met walking the stored tokens clockwise, with
\* wraparound, from the key's position (the token lookup resolves the key
\* to).  Stated for n # 1; n = 1 is the case of C8.
C12_ClockwiseFromKey ==
    (LastOp = "replicas_for_key" /\ LastArg[1] # 1) =>
        LastRet = ClockwiseDistinct(tokens, partition(LastArg[2]), 0, <<>>,
                                    LastArg[1])

\* C13 (as claimed): on a ring where at least n distinct nodes own tokens,
\* Topology.replicas_for_key(key, n) returns n distinct NodeIds, the primary
\* (the node lookup returns) first.
C13_TopologyExtends ==
    ( /\ LastOp = "topology_replicas_for_key"
      /\ Cardinality(Owners(tokens)) >= LastArg[1] )
    => /\ Len(LastRet) = LastArg[1]
       /\ NoDuplicates(LastRet)
       /\ LastArg[1] >= 1 => Some(LastRet[1]) = lookup(tokens, LastArg[2])

\* C14 (as claimed): add_node(node, 0) leaves the token index, the node
\* registry, token_count and node_count unchanged, also for an id that was
\* not registered.
C14_ZeroVnodesNoOp ==
    [][ (LastOp' = "add_node" /\ LastArg'[2] = 0)
        => ( /\ tokens' = tokens
             /\ nodes' = nodes
             /\ token_count(tokens') = token_count(tokens)
             /\ node_count(nodes') = node_count(nodes) ) ]_vars

\* C15: on a ring with zero nodes, fresh or after every added node has been
\* removed, lookup and lookup_node return empty for every key and
\* token_count and node_count are 0; so do the completed calls report.
C15_EmptyRing ==
    nodes = EmptyMap =>
        /\ \A k \in Keys : /\ lookup(tokens, k) = None
                            /\ lookup_node(tokens, nodes, k) = None
        /\ token_count(tokens) = 0
        /\ node_count(nodes) = 0
        /\ LastOp \in {"lookup", "lookup_node"} => LastRet = None
        /\ LastOp = "counts" => LastRet = <<0, 0>>

\* the last registered node has just been removed
C15_Witness ==
    /\ LastOp = "remove_node" /\ LastRet = TRUE
    /\ nodes = EmptyMap

\* C16: add_node for a NodeId that is already registered replaces the stored
\* metadata by the new node value, keeps node_count, and removes no token
\* inserted earlier: every stored token stays stored and every token of the
\* node stays mapped to it.
C16_ReAddUpdates ==
    [][ (LastOp' = "add_node" /\ LastArg'[1] \in DOMAIN nodes)
        => LET id == LastArg'[1]
           IN  /\ get_node(nodes', id) = Some(Node(id, LastArg'[3]))
               /\ node_count(nodes') = node_count(nodes)
               /\ DOMAIN tokens \subseteq DOMAIN tokens'
               /\ owned_by(tokens, id) \subseteq owned_by(tokens', id) ]_vars

\* a node that owns two tokens has just been added again with one vnode and
\* the name "b"
C16_Witness ==
    /\ LastOp = "add_node" /\ LastArg[2] = 1 /\ LastArg[3] = "b"
    /\ Cardinality(owned_by(tokens, LastArg[1])) >= 2
    /\ get_node(nodes, LastArg[1]) = Some(Node(LastArg[1], "b"))

\* the read operations
Reads ==
    {"lookup", "lookup_node", "get_node", "tokens", "nodes", "counts",
     "replicas_for_key", "ownership_percentages", "topology_replicas_for_key"}

C19_TokenInSpace ==
    LastOp = "partition" =>
        /\ token_le(LastArg[1], min_token(LastArg[1]), LastRet)
        /\ token_le(LastArg[1], LastRet, max_token(LastArg[1]))

\* C20: for the fixed-width tokens and all a, b of the token space,
\* a.distance_to(b) is b - a when b >= a and (max - a) + b + 1 otherwise, no
\* operation of the computation yields a value outside [0, max], and the
\* result equals (b - a) modulo the size of the space.
C20_DistanceWraps ==
    LastOp = "distance_to" =>
        LET a == LastArg[1]
            b == LastArg[2]
            st == distance_steps(a, b)
        IN  /\ LastRet = IF b >= a THEN b - a ELSE (TokenMax - a) + b + 1
            /\ \A j \in 1..Len(st) : 0 <= st[j] /\ st[j] <= TokenMax
            /\ LastRet = (b - a) % (TokenMax + 1)

\* the distance from max to zero: one step through the top of the space
C20_Witness ==
    /\ LastOp = "distance_to"
    /\ LastArg = <<TokenMax, 0>>
    /\ LastRet = 1

\* C21 (as claimed): for every token kind, ByteOrderedToken included,
\* a.distance_to(b) is the forward gap from a to b: the distance from a token
\* to itself is the zero token of its kind, and the result depends on a as
\* well as on b (some other a gives a different distance to the same b).
C21_DistanceIsGap ==
    /\ LastOp = "distance_to" =>
            /\ LastArg[1] = LastArg[2] => LastRet = min_token("Murmur3")
            /\ \E a \in Tokens : distance_to(a, LastArg[2]) # LastRet
    /\ LastOp = "byte_distance_to" =>
            /\ LastArg[1] = LastArg[2] => LastRet = min_token("ByteOrdered")
            /\ \E a \in PartKeys : byte_distance_to(a, LastArg[2]) # LastRet

VnodeTokens(id, v) == {from_bytes(VnodeKey(id, i)) : i \in 0..(v - 1)}

\* no two of the pairs (id, 0) .. (id, v - 1) hash to the same token, and
\* none to a token stored in toks
NoCollision(toks, id, v) ==
    /\ Cardinality(VnodeTokens(id, v)) = v
    /\ VnodeTokens(id, v) \cap DOMAIN toks = {}

\* C23: adding a node that is not registered, with v vnodes none of which
\* collides, raises node_count by one and token_count by v, gives the node
\* exactly v tokens and leaves every other node's tokens as they were (so
\* from the empty ring k such adds give k and v_1 + ... + v_k); removing a
\* registered node lowers node_count by one and token_count by exactly the
\* number of tokens the node holds, its vnode count.
C23_CountsAddUp ==
    [][/\ (/\ LastOp' = "add_node"
           /\ LastArg'[1] \notin DOMAIN nodes
           /\ NoCollision(tokens, LastArg'[1], LastArg'[2]))
          => /\ node_count(nodes') = node_count(nodes) + 1
             /\ token_count(tokens') = token_count(tokens) + LastArg'[2]
             /\ Cardinality(owned_by(tokens', LastArg'[1])) = LastArg'[2]
             /\ \A id \in NodeIds \ {LastArg'[1]} :
                    owned_by(tokens', id) = owned_by(tokens, id)
       /\ (LastOp' = "remove_node" /\ LastArg'[1] \in DOMAIN nodes)
          => /\ node_count(nodes') = node_count(nodes) - 1
             /\ token_count(tokens') =
                    token_count(tokens) - Cardinality(owned_by(tokens, LastArg'[1]))
      ]_vars

\* one of three nodes that shared a full token space without a collision
\* has just been removed
C23_Witness ==
    /\ LastOp = "remove_node"
    /\ LastRet = TRUE
    /\ node_count(nodes) = 2
    /\ \A id \in DOMAIN nodes : Cardinality(owned_by(tokens, id)) = 1
    /\ \E id \in NodeIds \ DOMAIN nodes :
          /\ token_count(tokens) + Cardinality(VnodeTokens(id, MaxVnodes))
                 = TokenMax + 1
          /\ NoCollision(tokens, id, MaxVnodes)

\* the default vnode count in force when call j of calls is made: the
\* argument of the latest with_vnodes before it, else the initial default
InForce(calls, j) ==
    LET ws == {i \in 1..(j - 1) : calls[i][1] = "with_vnodes"}
    IN  IF ws = {} THEN DefaultVnodes
        ELSE calls[CHOOSE i \in ws : \A k \in ws : k <= i][2]

\* HashRing::new() after the add calls among calls[j..], in order, each with
\* the vnode count the builder call stands for
RECURSIVE SameAdds(_, _, _)
SameAdds(calls, j, r) ==
    IF j > Len(calls) THEN <<r.tokens, r.nodes>>
    ELSE IF calls[j][1] = "add_node"
    THEN SameAdds(calls, j + 1,
                  add_node(r.tokens, r.nodes, calls[j][2], InForce(calls, j)))
    ELSE IF calls[j][1] = "add_node_with_vnodes"
    THEN SameAdds(calls, j + 1,
                  add_node(r.tokens, r.nodes, calls[j][2], calls[j][3]))
    ELSE SameAdds(calls, j + 1, r)

\* C24: the ring build() returns equals HashRing::new() after the same add
\* calls in the same order, where add_node(n) stands for add_node(n, d) with
\* d the default in force at that call (the initial default unless an
\* earlier with_vnodes changed it) and add_node_with_vnodes(n, v) for
\* add_node(n, v), which leaves the default as it was.
C24_BuilderIsAdds ==
    LastOp = "build" =>
        LastRet = SameAdds(LastArg, 1, [tokens |-> EmptyMap, nodes |-> EmptyMap])

\* built from with_vnodes(MaxVnodes), add_node_with_vnodes(n, 0), add_node(m):
\* the second node got the default set before the first was added
C24_Witness ==
    /\ LastOp = "build"
    /\ Len(LastArg) = 3
    /\ LastArg[1] = <<"with_vnodes", MaxVnodes>>
    /\ LastArg[2][1] = "add_node_with_vnodes" /\ LastArg[2][3] = 0
    /\ LastArg[3][1] = "add_node" /\ LastArg[3][2].id # LastArg[2][2].id
    /\ token_count(LastRet[1]) = MaxVnodes
    /\ node_count(LastRet[2]) = 2

\* the sum of the lengths of the lists m[id], id in S
RECURSIVE LenSum(_, _)
LenSum(m, S) ==
    IF S = {} THEN 0
    ELSE LET x == CHOOSE y \in S : TRUE
         IN  Len(m[x]) + LenSum(m, S \ {x})

\* C26: the map ownership() returns partitions the stored tokens by owner:
\* its keys are exactly the NodeIds that own a stored token, each list is
\* in strictly ascending token order and holds tokens of that node only,
\* the lists are pairwise disjoint, their union is the set of stored
\* tokens, and their lengths sum to token_count.
C26_OwnershipPartitions ==
    LastOp = "ownership" =>
        LET o == LastRet
        IN  /\ DOMAIN o = Owners(tokens)
            /\ \A id \in DOMAIN o :
                  /\ \A i \in 1..(Len(o[id]) - 1) : o[id][i] < o[id][i + 1]
                  /\ Members(o[id]) = owned_by(tokens, id)
            /\ \A a \in DOMAIN o, b \in DOMAIN o :
                  a # b => Members(o[a]) \cap Members(o[b]) = {}
            /\ UNION {Members(o[id]) : id \in DOMAIN o} = DOMAIN tokens
            /\ LenSum(o, DOMAIN o) = token_count(tokens)

\* ownership() of a ring where one node owns two tokens and another one lies
\* between them
C26_Witness ==
    /\ LastOp = "ownership"
    /\ \E a \in DOMAIN LastRet, b \in DOMAIN LastRet :
          /\ a # b
          /\ Len(LastRet[a]) = 2
          /\ LastRet[a][1] < LastRet[b][1] /\ LastRet[b][1] < LastRet[a][2]

\* C27: when exactly one node owns tokens, the lookup of every key, and of
\* every token position (before, between or after the node's tokens),
\* returns that node's NodeId; so does every completed lookup call.
C27_SingleOwner ==
    Cardinality(Owners(tokens)) = 1 =>
        LET n == CHOOSE x \in Owners(tokens) : TRUE
        IN  /\ \A t \in Tokens : node_for_token(tokens, t) = Some(n)
            /\ \A k \in Keys : lookup(tokens, k) = Some(n)
            /\ LastOp = "lookup" => LastRet = Some(n)

\* a lookup whose key hashes past the last of the single owner's two tokens
C27_Witness ==
    /\ Cardinality(Owners(tokens)) = 1
    /\ token_count(tokens) = 2
    /\ LastOp = "lookup"
    /\ \A t \in DOMAIN tokens : t < partition(LastArg[1])
    /\ LastRet # None

\* C28 (as claimed): in every reachable state with node_count() >= 1,
\* lookup of every key returns some NodeId and lookup_node returns the
\* metadata of that node; lookup is empty only on a ring with zero nodes.
C28_LookupSomeWhenNodes ==
    node_count(nodes) >= 1 =>
        \A k \in Keys :
            /\ lookup(tokens, k) # None
            /\ lookup_node(tokens, nodes, k) = get_node(nodes, lookup(tokens, k)[1])
            /\ lookup_node(tokens, nodes, k) # None

\* C29 (as claimed): describe() gives the header (node count, total token
\* count, partitioner name) and then exactly one line for every registered
\* node, in strictly ascending NodeId order, each with the number of stored
\* tokens that map to its node.
C29_DescribeLines ==
    LastOp = "describe" =>
        LET lines == LastRet[4]
        IN  /\ LastRet[1] = node_count(nodes)
            /\ LastRet[2] = token_count(tokens)
            /\ LastRet[3] = partitioner_name
            /\ Len(lines) = node_count(nodes)
            /\ {lines[j][1] : j \in 1..Len(lines)} = DOMAIN nodes
            /\ \A j \in 1..(Len(lines) - 1) : lines[j][1] < lines[j + 1][1]
            /\ \A j \in 1..Len(lines) :
                  lines[j][3] = Cardinality(owned_by(tokens, lines[j][1]))

\* C30: remove_node(id) moves only what id owned: every key, and every
\* token position, that looked up a node other than id before the call
\* looks up the same node after it, and every other node keeps exactly its
\* tokens and its metadata.
C30_MinimalMovement ==
    [][LastOp' = "remove_node" =>
          LET id == LastArg'[1]
          IN  /\ \A k \in Keys :
                    lookup(tokens, k) \notin {None, Some(id)}
                        => lookup(tokens', k) = lookup(tokens, k)
              /\ \A t \in Tokens :
                    node_for_token(tokens, t) \notin {None, Some(id)}
                        => node_for_token(tokens', t) = node_for_token(tokens, t)
              /\ \A n \in NodeIds \ {id} :
                    /\ owned_by(tokens', n) = owned_by(tokens, n)
                    /\ get_node(nodes', n) = get_node(nodes, n)
      ]_vars

\* a node has just been removed whose first vnode token is gone from the
\* ring: with it, one key looked up the removed node and now looks up
\* another, while a second key looks up the node it did before
C30_Witness ==
    /\ LastOp = "remove_node"
    /\ LastRet = TRUE
    /\ LET id == LastArg[1]
           t0 == from_bytes(VnodeKey(id, 0))
           before == Put(tokens, t0, id)
       IN  /\ t0 \notin DOMAIN tokens
           /\ \E k1 \in Keys, k2 \in Keys :
                 /\ lookup(before, k1) = Some(id)
                 /\ lookup(tokens, k1) \notin {None, Some(id)}
                 /\ lookup(before, k2) \notin {None, Some(id)}
                 /\ lookup(tokens, k2) = lookup(before, k2)

\* C31: add_node(X, v) moves keys to X only: every key, and every token
\* position, looks up after the call either what it looked up before or X,
\* and the metadata of every node other than X is as it was.
C31_MinimalMovementOnAdd ==
    [][LastOp' = "add_node" =>
          LET X == LastArg'[1]
          IN  /\ \A k \in Keys :
                    lookup(tokens', k) \in {lookup(tokens, k), Some(X)}
              /\ \A t \in Tokens :
                    node_for_token(tokens', t) \in {node_for_token(tokens, t), Some(X)}
              /\ \A n \in NodeIds \ {X} : get_node(nodes', n) = get_node(nodes, n)
      ]_vars

\* a node has just been added to a ring of others: one key looks up the new
\* node and would look up another node without it, a second key looks up a
\* node that is not the new one
C31_Witness ==
    /\ LastOp = "add_node"
    /\ LET X == LastArg[1]
           without == retain_not(tokens, X, Cardinality(DOMAIN tokens))
       IN  \E k1 \in Keys, k2 \in Keys :
               /\ lookup(tokens, k1) = Some(X)
               /\ lookup(without, k1) \notin {None, Some(X)}
               /\ lookup(tokens, k2) \notin {None, Some(X)}

\* C32: after add_node(X, v) every token generated for the indices
\* 0 .. v - 1 of X maps to X, also one that was stored for another node Y
\* (last write wins); token_count grows only by the generated tokens that
\* were not stored, every node registered before stays registered, and
\* every stored token maps to a registered node (I1).
C32_LastWriteWins ==
    [][LastOp' = "add_node" =>
          LET X == LastArg'[1]
              gen == VnodeTokens(X, LastArg'[2])
          IN  /\ \A t \in gen : t \in DOMAIN tokens' /\ tokens'[t] = X
              /\ token_count(tokens') =
                     token_count(tokens) + Cardinality(gen \ DOMAIN tokens)
              /\ DOMAIN nodes \subseteq DOMAIN nodes'
              /\ \A t \in DOMAIN tokens' : tokens'[t] \in DOMAIN nodes'
      ]_vars

\* the node added last holds the token of another node's first vnode, and
\* that node still owns a token of its own
C32_Witness ==
    /\ LastOp = "add_node"
    /\ \E Y \in DOMAIN nodes \ {LastArg[1]} :
          /\ from_bytes(VnodeKey(Y, 0)) \in VnodeTokens(LastArg[1], LastArg[2])
          /\ tokens[from_bytes(VnodeKey(Y, 0))] = LastArg[1]
          /\ owned_by(tokens, Y) # {}

RoundTrip(X, name, v) ==
    LET a == add_node(tokens, nodes, Node(X, name), v)
        r == remove_node(a.tokens, a.nodes, X)
        b == add_node(r.tokens, r.nodes, Node(X, name), v)
    IN  <<a, r, b>>

\* C34 (as claimed): in every ring state where X is not registered,
\* add_node(X, v) followed by remove_node(X) returns true and restores
\* exactly the prior token index and node registry, so every key resolves
\* as before; adding X again with the same v gives the state of the first
\* add.
C34_RoundTripExact ==
    \A X \in NodeIds \ DOMAIN nodes, name \in Names, v \in VnodeCounts :
        LET rt == RoundTrip(X, name, v)
        IN  /\ rt[2].ret = TRUE
            /\ rt[2].tokens = tokens
            /\ rt[2].nodes = nodes
            /\ \A k \in Keys : lookup(rt[2].tokens, k) = lookup(tokens, k)
            /\ rt[3] = rt[1]

\* C34 (amended): in every ring state where X is not registered,
\* add_node(X, v) followed by remove_node(X) returns true and restores the
\* prior node registry and the prior token index less the stored tokens
\* that X's add overwrote; when no token generated for X was stored before,
\* the prior state is restored exactly and every key resolves as before.
\* Adding X again with the same v gives the state of the first add.
C34_RoundTrip ==
    \A X \in NodeIds \ DOMAIN nodes, name \in Names, v \in VnodeCounts :
        LET rt == RoundTrip(X, name, v)
            gen == VnodeTokens(X, v)
        IN  /\ rt[2].ret = TRUE
            /\ rt[2].nodes = nodes
            /\ rt[2].tokens = [t \in DOMAIN tokens \ gen |-> tokens[t]]
            /\ gen \cap DOMAIN tokens = {} =>
                   /\ rt[2].tokens = tokens
                   /\ \A k \in Keys : lookup(rt[2].tokens, k) = lookup(tokens, k)
            /\ rt[3] = rt[1]

\* a node has just been removed from a ring that stores, for another node,
\* one of the tokens an add of the removed node generates
C34_Witness ==
    /\ LastOp = "remove_node"
    /\ LastRet = TRUE
    /\ tokens # EmptyMap
    /\ \E v \in VnodeCounts : VnodeTokens(LastArg[1], v) \cap DOMAIN tokens # {}
    /\ \E X \in NodeIds \ (DOMAIN nodes \cup {LastArg[1]}) :
          VnodeTokens(X, MaxVnodes) \cap DOMAIN tokens = {}

\* C37: remove_node(id) returns true exactly when id is registered at the
\* call, however many tokens id owns then (none included); when it returns
\* true the metadata of id is gone and a remove_node(id) repeated at once
\* returns false.
C37_RemoveIffRegistered ==
    [][LastOp' = "remove_node" =>
          /\ LastRet' = (LastArg'[1] \in DOMAIN nodes)
          /\ LastRet' => /\ get_node(nodes', LastArg'[1]) = None
                         /\ remove_node(tokens', nodes', LastArg'[1]).ret = FALSE
      ]_vars

\* a remove that returned true for a node that owned no token: every token
\* an add generates for it is still stored, for other nodes
C37_Witness ==
    /\ LastOp = "remove_node"
    /\ LastRet = TRUE
    /\ VnodeTokens(LastArg[1], MaxVnodes) \subseteq DOMAIN tokens

\* C38: SimpleStrategy.replicas_for_key returns the empty list when the
\* replication factor is 0, on any ring, and when the ring holds no token,
\* for any replication factor (registered nodes or not); the call leaves
\* the ring as it was.
C38_EmptyReplicas ==
    [][/\ \A rf \in Factors, k \in Keys :
             (rf = 0 \/ tokens = EmptyMap) => replicas_for_key(rf, tokens, k) = <<>>
       /\ LastOp' = "replicas_for_key" =>
             /\ tokens' = tokens /\ nodes' = nodes
             /\ (LastArg'[1] = 0 \/ tokens = EmptyMap) => LastRet' = <<>>
      ]_vars

\* a call with a positive replication factor on a ring whose registered
\* nodes own no token
C38_Witness ==
    /\ LastOp = "replicas_for_key"
    /\ LastArg[1] >= 1
    /\ tokens = EmptyMap /\ nodes # EmptyMap
    /\ LastRet = <<>>

\* C39: Topology.ownership_percentages() returns the empty mapping when the
\* ring holds no token, also when nodes are registered without tokens; when
\* the ring holds a token the mapping has exactly one entry per node that
\* owns a token, and no entry divides by zero.
C39_PercentagesOrEmpty ==
    LastOp = "ownership_percentages" =>
        /\ tokens = EmptyMap => LastRet = EmptyMap
        /\ tokens # EmptyMap => DOMAIN LastRet = Owners(tokens)
        /\ \A id \in DOMAIN LastRet : LastRet[id][2] # 0

\* the call on a ring whose registered nodes own no token
C39_Witness ==
    /\ LastOp = "ownership_percentages"
    /\ tokens = EmptyMap /\ nodes # EmptyMap
    /\ LastRet = EmptyMap

C35_ReplicasOneState ==
    \A t \in Threads :
        (pc[t] = "sr_done" /\ loc[t][2] # 0) =>
            LET rf == loc[t][2]
                ret == loc[t][5]
                ts == loc[t][6]
            IN  /\ \E S \in loc[t][7] :
                      /\ ret = replicas_for_key(rf, S[1], loc[t][3])
                      /\ Len(ret) <= MinNat(rf, node_count(S[2]))
                /\ NoDuplicates(ret)
                /\ \A j \in 1..Len(ret) : \E i \in 1..Len(ts) : ts[i][2] = ret[j]

\* the sum of the token counts of the lines[j], j in 1..n
RECURSIVE LineSum(_, _)
LineSum(lines, n) == IF n = 0 THEN 0 ELSE lines[n][3] + LineSum(lines, n - 1)

\* C36 (as claimed): the report a finished describe() holds is consistent
\* with one ring state, also under concurrent add_node/remove_node: it has
\* no more per-node lines than the node count of its header, the token
\* counts of its lines sum to the total token count of its header, and no
\* line carries the name "unknown".
C36_DescribeOneState ==
    \A t \in Threads :
        pc[t] = "ds_done" =>
            LET hdr == loc[t][2]
                lines == loc[t][7]
            IN  /\ Len(lines) <= hdr[1]
                /\ LineSum(lines, Len(lines)) = hdr[2]
                /\ \A j \in 1..Len(lines) : lines[j][2] # "unknown"

\* the positions at which a thread asks for the ring's lock
LockLabels ==
    {"add_lock", "rm_lock", "ln_lock1", "ln_lock2", "op_lock1", "op_lock2",
     "sr_lock1", "sr_lock2"} \cup DOMAIN DescribeReads

\* no thread asks for the lock while it holds an acquisition of it
NoReacquire ==
    \A t \in Threads : pc[t] \in LockLabels => t \notin rlock /\ wlock # t

\* C22: no thread ever asks for the ring's lock, read or write, while it
\* holds an acquisition of it, the multi-step operations lookup_node,
\* ownership_percentages, describe and replicas_for_key included; and with
\* a fair lock every started operation completes, in every interleaving of
\* readers and writers.
C22_NoDeadlock ==
    /\ []NoReacquire
    /\ \A t \in Threads : (pc[t] # "idle") ~> (pc[t] = "idle")

\* a describe between two of its acquisitions, kept waiting by a writer
C22_Witness ==
    \E t \in Threads, u \in Threads :
        /\ pc[t] = "ds_lock6"
        /\ loc[t][7] # <<>>
        /\ wlock = u
        /\ pc[u] = "rm_retain"


\* some thread is inside a write acquisition and has changed the ring
MidWrite(t) == wlock = t /\ <<tokens, nodes>> # committed

\* C3: invariant I1 -- every token of the token index maps to a NodeId that
\* is present in the node registry, in every state that calls of add_node and
\* remove_node reach under any interleaving of their steps; so lookup never
\* returns a NodeId for which get_node is empty in the same state.
C3_I1 ==
    /\ \A tk \in DOMAIN tokens : tokens[tk] \in DOMAIN nodes
    /\ \A key \in Keys :
          lookup(tokens, key) # None
              => get_node(nodes, lookup(tokens, key)[1]) # None

\* a remove_node has deleted part of its node's tokens, the rest still
\* resolve, and a key is owned by the node being removed
C3_Witness ==
    \E t \in Threads :
        /\ pc[t] = "rm_retain"
        /\ MidWrite(t)
        /\ owned_by(tokens, id_of(loc[t])) # {}
        /\ \E key \in Keys : lookup(tokens, key) = Some(id_of(loc[t]))

\* C6: add_node and remove_node are atomic for concurrent threads.  A thread
\* holding a read acquisition never coexists with a writer and sees exactly
\* the ring left by the last completed write; and when a writer releases, the
\* ring is the one the whole call produces from the ring left by the
\* previous completed write, so the writes take effect in the order of their
\* releases.
C6_AtomicWrites ==
    /\ rlock # {} => wlock = 0 /\ <<tokens, nodes>> = committed
    /\ wlock = 0 => <<tokens, nodes>> = committed
    /\ \A t \in Threads :
          /\ (pc[t] = "add_loop" /\ i_of(loc[t]) >= vnodes_of(loc[t])) =>
                LET r == add_node(committed[1], committed[2],
                                  node_of(loc[t]), vnodes_of(loc[t]))
                IN  <<tokens, nodes>> = <<r.tokens, r.nodes>>
          /\ pc[t] = "rm_unlock" =>
                LET r == remove_node(committed[1], committed[2], id_of(loc[t]))
                IN  /\ <<tokens, nodes>> = <<r.tokens, r.nodes>>
                    /\ ret_of(loc[t]) = r.ret

\* a writer that has inserted a part of its tokens while the other thread
\* waits for its read acquisition
C6_Witness ==
    \E t, u \in Threads :
        /\ pc[t] = "add_loop"
        /\ MidWrite(t)
        /\ i_of(loc[t]) = 1
        /\ vnodes_of(loc[t]) = 2
        /\ pc[u] \in {"ln_lock1", "ln_lock2"}

\* C7: a finished lookup_node(key) returns what lookup_node_optimized(key)
\* returns on one of the ring states that existed during the call; so it is
\* empty only if the ring held no token at some moment of the call.
C7_SameAsOptimized ==
    \A t \in Threads :
        pc[t] = "ln_done" => ret_of(loc[t]) \in during_of(loc[t])


\* the sum of f over the set S of its arguments
RECURSIVE SumOver(_, _)
SumOver(f, S) ==
    IF S = {} THEN 0
    ELSE LET x == CHOOSE y \in S : TRUE
         IN  f[x][1] + SumOver(f, S \ {x})

\* every percentage of the mapping m lies in [0, 100], and they sum to 100
\* when m is not empty
InRangeAndComplete(m) ==
    /\ \A id \in DOMAIN m : 0 <= m[id][1] /\ m[id][1] <= 100 * m[id][2]
    /\ \A id \in DOMAIN m : SumOver(m, DOMAIN m) = 100 * m[id][2]

\* C17 (as claimed): every value ownership_percentages returns lies in
\* [0, 100] and the values sum to 100 when the result is not empty, also when
\* add_node and remove_node run while the call is between its two reads.
C17_PercentagesInRange ==
    \A t \in Threads :
        pc[t] = "op_done" => InRangeAndComplete(ret_of(loc[t]))

====
